---- MODULE Spec2Model ----
(***************************************************************************)
(* Model of the job-orchestration core of WorldQuant-Alpha-Research:       *)
(*   src/src/core/wq_session_core.py  RequestRateLimiter, WQSession        *)
(*   src/src/core/wq_simulation.py    WQSimulation                         *)
(*                                                                         *)
(* Time is a discrete clock.  The durations of the source are scaled to    *)
(* small numbers of clock units (the source values are given beside each). *)
(* In Spec a thread's own steps take no time: the clock advances only      *)
(* while every thread sleeps, waits for a lock or waits for the remote     *)
(* service.  In SpecLimiter a thread may be delayed at any point.          *)
(***************************************************************************)
EXTENDS Integers, Sequences, FiniteSets, TLC

\* The longest list of checks a fetched record carries.
MaxChecks == 3

\* Rows written when the flushing of the result CSV is checked: more than
\* flush_interval.
MaxRows == 6

\* Processes that update the same tracker file at the same time.
NumProcesses == 2

\* Jobs handed to the pool when the pool's bound is checked: one more than
\* it has workers.
PoolJobs == 3

\* ---------------------------------------------------------------- bounds
\* Worker threads of the pool (ThreadPoolExecutor(max_workers=3), scaled).
NumWorkers == 2
\* Pending rows of the tracker at load time.
NumJobs == 2
\* The clock runs for Horizon units.
Horizon == 7
\* RequestRateLimiter.min_interval, in clock units (source: 5.0 s).
min_interval == 1
\* WQSession.cooldown_seconds, in clock units (source: 60 s).
cooldown_seconds == 2
\* _monitor_simulation's timeout, in clock units (source: 600 s).
timeout == 2
\* _monitor_simulation's sleep between polls, in clock units (source: 15 s).
poll_interval == 1
\* The cap of the backoff sleep, in clock units (source: 30 s).
backoff_cap == 2
\* The remote service answers a call at most MaxLatency units after it is sent.
MaxLatency == 1
\* Calls of one run that the remote service does not answer at once.
MaxSlow == 1
\* Failures the remote service and the transport inject in one run (Spec).
MaxFaults == 2
\* Failures they inject into the calls of SpecRetry.
RetryFaults == 4
\* Failures they inject into the one job of a run that is followed to its
\* end (SpecFair): every call of one request may fail.
FairFaults == 3
\* Time units a run is followed for in SpecFair: longer than any run lasts
\* whose threads are not kept waiting for the operator.
FairHorizon == 30
\* Frames the interpreter allows the recursive get/post wrapper.
RecursionLimit == 1
\* Rows of the tracker file in SpecLedger.
NumRows == 2
\* Times the tracker's file lock cannot be acquired in SpecLedger.
LedgerFaults == 1

\* ------------------------------------------------------- program constants
\* request_with_retry(max_attempts=3)
max_attempts == 3
\* WQSimulation._flush_interval
flush_interval == 5

Workers == 1..NumWorkers
Jobs == 1..NumJobs

Max(a, b) == IF a >= b THEN a ELSE b
Min(a, b) == IF a <= b THEN a ELSE b

\* The clock value at construction: time.time() is far beyond every duration,
\* so neither last_call = 0 nor last_429_time = 0 delays the first call.
Epoch == Max(min_interval, cooldown_seconds)
MaxTime == Epoch + Horizon

\* ------------------------------------------------------------ cell values
\* A value of a result column, as csv.writer and DataFrame.to_csv print it:
\* an int (2), a float (2.0), a string, or nothing (a missing value).  n is
\* the number in hundredths.
IntCell(i) == [k |-> "int", n |-> 100 * i, s |-> ""]
FloatCell(h) == [k |-> "float", n |-> h, s |-> ""]
StrCell(t) == [k |-> "str", n |-> 0, s |-> t]
NaN == [k |-> "nan", n |-> 0, s |-> ""]

\* float(i): the cell prints with a decimal point.
ToFloat(c) == IF c.k = "int" THEN [c EXCEPT !.k = "float"] ELSE c

\* ",".join(names), line 410.
RECURSIVE Join(_)
Join(names) ==
    IF names = <<>> THEN ""
    ELSE IF Len(names) = 1 THEN names[1]
    ELSE names[1] \o "," \o Join(Tail(names))

\* ------------------------------------------------------ _process_checks
\* One pass of the loop of lines 484-496 over a check of data['is']['checks'].
CheckStep(acc, check) ==
    LET counted == IF check.result = "PASS"
                   THEN [acc EXCEPT !.passed = @ + 1]
                   ELSE IF check.result = "FAIL"
                   THEN [acc EXCEPT !.failed = Append(@, check.name)]
                   ELSE acc
    IN  IF check.name = "CONCENTRATED_WEIGHT"
        THEN [counted EXCEPT !.weight_check = check.result]
        ELSE IF check.name = "LOW_SUB_UNIVERSE_SHARPE"
        THEN [counted EXCEPT !.subsharpe = IF check.result = "ERROR"
                                           THEN StrCell("ERROR")
                                           ELSE FloatCell(check.value)]
        ELSE counted

RECURSIVE ProcessChecksFrom(_, _)
ProcessChecksFrom(checks, acc) ==
    IF checks = <<>> THEN acc
    ELSE ProcessChecksFrom(Tail(checks), CheckStep(acc, Head(checks)))

\* Every check that did not fail counted as passed.
ProcessChecksLenient(checks) ==
    LET r == ProcessChecksFrom(checks, [passed |-> 0, failed |-> <<>>,
                                        weight_check |-> "UNKNOWN",
                                        subsharpe |-> IntCell(-1)])
    IN  [r EXCEPT !.passed = Len(checks) - Len(r.failed)]

\* _process_checks, lines 477-498: passed, failed, weight_check, subsharpe.
ProcessChecks(checks) ==
    ProcessChecksFrom(checks, [passed |-> 0, failed |-> <<>>,
                               weight_check |-> "UNKNOWN",
                               subsharpe |-> IntCell(-1)])

\* A check of the record: its name, its result and its value in hundredths.
Check(name, res) == [name |-> name, result |-> res, value |-> 80]

\* No record fetched yet.
NoRecord == [checks |-> <<>>, sharpe |-> 0, fitness |-> 0, turnover |-> 0]

\* The record of a simulated alpha in a run: two checks pass, the weight
\* check fails; sharpe 1.42, fitness 1.0, turnover 0.25 (in hundredths).
AlphaRecord ==
    [checks |-> <<Check("LOW_SHARPE", "PASS"), Check("LOW_FITNESS", "PASS"),
                  Check("CONCENTRATED_WEIGHT", "FAIL")>>,
     sharpe |-> 142, fitness |-> 100, turnover |-> 25]

VARIABLES
    clock,              \* time.time()
    th,                 \* th[w]: the locals of worker thread w (see InitThread)
    last_call,          \* RequestRateLimiter.last_call
    limiter_lock,       \* RequestRateLimiter.lock: 0 (free) or its holder
    rate_limit_lock,    \* WQSession.rate_limit_lock: 0 (free) or its holder
    last_429_time,      \* WQSession.last_429_time
    login_lock,         \* WQSession.login_lock: 0 (free) or its holder
    login_expired,      \* WQSession.login_expired
    queue,              \* the executor's work queue: jobs not yet started
    result,             \* result[j]: the future of job j
    csv,                \* the data rows of the run's result CSV, in order
    unflushed_row_count,\* WQSimulation._unflushed_row_count
    write_lock,         \* WQSimulation.write_lock: 0 (free) or its holder
    flushed,            \* lines of the result CSV that f.flush() has pushed out
    processed_simulations, \* WQSimulation.processed_simulations (their jobs)
    tracker,            \* the rows of the tracker (ledger) file, in order
    file_lock,          \* FileLock(tracker_path + ".lock"): 0 (free) or its holder
    updater,            \* updater[p]: process p in update_tracker_with_results
    login_count,        \* history: login() calls made by the re-auth path
    faults,             \* failures the environment may still inject
    slow                \* history: calls not answered at once so far

vars == <<clock, th, last_call, limiter_lock, rate_limit_lock, last_429_time,
          login_lock, login_expired, queue, result, csv, unflushed_row_count,
          write_lock, flushed, processed_simulations, tracker, file_lock,
          updater, login_count, faults, slow>>

limiterVars == <<last_call, limiter_lock>>
sessionVars == <<rate_limit_lock, last_429_time, login_lock, login_expired>>
fileVars == <<csv, unflushed_row_count, write_lock, flushed,
             processed_simulations>>
trackerVars == <<tracker, file_lock, updater>>
runVars == <<queue, result, fileVars, trackerVars>>
histVars == <<login_count, faults, slow>>

\* The locals of a worker thread.
InitThread ==
    [pc |-> "idle",         \* where the thread is
     job |-> 0,             \* the job it runs (0: none)
     stage |-> "none",      \* the caller of request_with_retry: submit, poll, fetch
     attempt |-> 0,         \* request_with_retry's attempt
     now |-> 0,             \* the local `now`
     wake |-> 0,            \* the time its time.sleep() ends
     lc_read |-> 0,         \* the last_call value it read in wait()
     depth |-> 0,           \* frames of new_get/new_post on its stack
     ret |-> "none",        \* what request_with_retry returned
     start_time |-> 0,      \* _monitor_simulation's start_time
     sent_at |-> 0,         \* history: when its call in flight was sent
     has_grant |-> FALSE,   \* history: wait() returned and no call was made since
     ncalls |-> 0,          \* history: transport calls of this request_with_retry
     seen |-> {},           \* history: failures this request_with_retry met
     auth_epoch |-> 0,      \* history: login_count when its auth failure arrived
     recv_at |-> 0,         \* history: when its 429 response arrived
     data |-> NoRecord,     \* the record its fetch call returned (response.json())
     lat |-> 0]             \* history: time its monitor's calls spent in flight

\* ------------------------------------------------------- RequestRateLimiter
\* wait() entered without taking the lock.
WaitEnterNoLock(w) ==
    /\ th[w].pc = "wait_enter"
    /\ limiter_lock' = w
    /\ th' = [th EXCEPT ![w].pc = "wait_check", ![w].now = clock]
    /\ UNCHANGED <<clock, last_call, sessionVars, runVars, histVars>>

\* wait(), lines 21-22: `with self.lock:` then `now = time.time()`.
WaitEnter(w) ==
    /\ th[w].pc = "wait_enter"
    /\ limiter_lock = 0
    /\ limiter_lock' = w
    /\ th' = [th EXCEPT ![w].pc = "wait_check", ![w].now = clock]
    /\ UNCHANGED <<clock, last_call, sessionVars, runVars, histVars>>

\* wait(), lines 23-25: elapsed = now - last_call; sleep the rest of the
\* interval when elapsed < min_interval.
WaitCheck(w) ==
    /\ th[w].pc = "wait_check"
    /\ LET elapsed == th[w].now - last_call
       IN  th' = [th EXCEPT ![w].pc = "wait_sleep",
                            ![w].lc_read = last_call,
                            ![w].wake = IF elapsed < min_interval
                                        THEN clock + (min_interval - elapsed)
                                        ELSE clock]
    /\ UNCHANGED <<clock, limiterVars, sessionVars, runVars, histVars>>

\* wait(), line 26 and the end of the with block: once the sleep is over,
\* last_call = time.time() and the lock is released.
WaitGrant(w) ==
    /\ th[w].pc = "wait_sleep"
    /\ clock >= th[w].wake
    /\ last_call' = clock
    /\ limiter_lock' = IF limiter_lock = w THEN 0 ELSE limiter_lock
    /\ th' = [th EXCEPT ![w].pc = "send", ![w].has_grant = TRUE,
                        ![w].now = 0, ![w].wake = 0, ![w].lc_read = 0]
    /\ UNCHANGED <<clock, sessionVars, runVars, histVars>>

\* A caller of wait(): any thread may call it again at any time.
LimiterCaller(w) ==
    /\ th[w].pc = "send"
    /\ th' = [th EXCEPT ![w].pc = "wait_enter", ![w].has_grant = FALSE]
    /\ UNCHANGED <<clock, limiterVars, sessionVars, runVars, histVars>>

\* Time passes; a thread may be delayed at any point.
TickFree ==
    /\ clock < MaxTime
    /\ clock' = clock + 1
    /\ UNCHANGED <<th, limiterVars, sessionVars, runVars, histVars>>

\* ------------------------------------------------- request_with_retry
\* The thread enters request_with_retry for `stg` (line 265, attempt 1).
Call(t, stg) ==
    [t EXCEPT !.pc = "rw_now", !.stage = stg, !.attempt = 1, !.depth = 0,
              !.ret = "none", !.ncalls = 0, !.seen = {}]

\* request_with_retry returns r to its caller.
Return(t, r) ==
    [t EXCEPT !.pc = "rwr_ret", !.ret = r, !.attempt = 0, !.depth = 0,
              !.now = 0, !.wake = 0, !.sent_at = 0]

\* `continue`: the for loop of line 265 takes its next attempt, or ends and
\* line 345 returns None.
NextAttempt(t) ==
    IF t.attempt < max_attempts
    THEN [t EXCEPT !.pc = "rw_now", !.attempt = @ + 1, !.depth = 0,
                   !.now = 0, !.wake = 0, !.sent_at = 0]
    ELSE Return(t, "None")

\* Line 342: sleep_time = min(2 ** attempt, 30).
Backoff(attempt) == Min(2 ^ attempt, backoff_cap)

\* The response arrived: the time the call was in flight is over.
Landed(t) == [t EXCEPT !.lat = @ + (clock - t.sent_at), !.sent_at = 0]

\* Line 267: now = time.time().
RwNow(w) ==
    /\ th[w].pc = "rw_now"
    /\ th' = [th EXCEPT ![w].pc = "rw_lock", ![w].now = clock]
    /\ UNCHANGED <<clock, limiterVars, sessionVars, runVars, histVars>>

\* A cooldown check that keeps rate_limit_lock when it goes on to wait().
RwCooldownKeeping(w) ==
    /\ th[w].pc = "rw_lock"
    /\ rate_limit_lock = 0
    /\ rate_limit_lock' = w
    /\ LET cooldown_left == cooldown_seconds - (th[w].now - last_429_time)
       IN  IF cooldown_left > 0
           THEN th' = [th EXCEPT ![w].pc = "rw_sleep",
                                 ![w].wake = clock + cooldown_left]
           ELSE th' = [th EXCEPT ![w].pc = "wait_enter", ![w].now = 0]
    /\ UNCHANGED <<clock, limiterVars, last_429_time, login_lock,
                   login_expired, runVars, histVars>>

\* Lines 268-272: under rate_limit_lock, sleep what is left of the cooldown.
RwCooldown(w) ==
    /\ th[w].pc = "rw_lock"
    /\ rate_limit_lock = 0
    /\ LET cooldown_left == cooldown_seconds - (th[w].now - last_429_time)
       IN  IF cooldown_left > 0
           THEN /\ rate_limit_lock' = w
                /\ th' = [th EXCEPT ![w].pc = "rw_sleep",
                                    ![w].wake = clock + cooldown_left]
           ELSE /\ rate_limit_lock' = 0
                /\ th' = [th EXCEPT ![w].pc = "wait_enter", ![w].now = 0]
    /\ UNCHANGED <<clock, limiterVars, last_429_time, login_lock,
                   login_expired, runVars, histVars>>

\* Line 272 ends: the lock is released and line 274 calls wait().
RwCooldownWake(w) ==
    /\ th[w].pc = "rw_sleep"
    /\ clock >= th[w].wake
    /\ rate_limit_lock' = 0
    /\ th' = [th EXCEPT ![w].pc = "wait_enter", ![w].now = 0, ![w].wake = 0]
    /\ UNCHANGED <<clock, limiterVars, last_429_time, login_lock,
                   login_expired, runVars, histVars>>

\* Line 276: response = method(url, **kwargs): the call goes out.
Send(w) ==
    /\ th[w].pc = "send"
    /\ th' = [th EXCEPT ![w].pc = "inflight", ![w].sent_at = clock,
                        ![w].has_grant = FALSE, ![w].ncalls = @ + 1]
    /\ UNCHANGED <<clock, limiterVars, sessionVars, runVars, histVars>>

\* The transport raises.  new_get/new_post (wq_session_core.py lines 41-46)
\* catch everything and call themselves again, with no wait() and no count,
\* until the interpreter's recursion limit ends it; that error reaches
\* line 336: the last attempt returns None, the others sleep and go on.
RecvException(w) ==
    /\ th[w].pc = "inflight"
    /\ faults > 0
    /\ faults' = faults - 1
    /\ IF th[w].depth < RecursionLimit
       THEN /\ th' = [th EXCEPT ![w] =
                        [Landed(@) EXCEPT !.depth = @ + 1, !.ncalls = @ + 1,
                                          !.sent_at = clock,
                                          !.seen = @ \cup {"exc"}]]
       ELSE /\ th' = [th EXCEPT ![w] =
                        LET t == [Landed(@) EXCEPT !.seen = @ \cup {"exc"}]
                        IN  IF t.attempt = max_attempts
                            THEN Return(t, "None")
                            ELSE [t EXCEPT !.pc = "backoff",
                                           !.wake = clock + Backoff(t.attempt)]]
    /\ UNCHANGED <<clock, limiterVars, sessionVars, runVars, login_count, slow>>

\* Lines 342-343 end: the next attempt.
BackoffWake(w) ==
    /\ th[w].pc = "backoff"
    /\ clock >= th[w].wake
    /\ th' = [th EXCEPT ![w] = NextAttempt(@)]
    /\ UNCHANGED <<clock, limiterVars, sessionVars, runVars, histVars>>

\* Line 281: status 429.
Recv429(w) ==
    /\ th[w].pc = "inflight"
    /\ faults > 0
    /\ faults' = faults - 1
    /\ th' = [th EXCEPT ![w] =
                [Landed(@) EXCEPT !.pc = "t429_lock", !.seen = @ \cup {"429"},
                                  !.recv_at = clock]]
    /\ UNCHANGED <<clock, limiterVars, sessionVars, runVars, login_count, slow>>

\* Lines 282-294: under rate_limit_lock, the first thread past the cooldown
\* sets last_429_time and sleeps the whole cooldown; another sleeps the rest.
T429Lock(w) ==
    /\ th[w].pc = "t429_lock"
    /\ rate_limit_lock = 0
    /\ rate_limit_lock' = w
    /\ IF clock - last_429_time >= cooldown_seconds
       THEN /\ last_429_time' = clock
            /\ th' = [th EXCEPT ![w].pc = "t429_sleep",
                                ![w].wake = clock + cooldown_seconds]
       ELSE /\ UNCHANGED last_429_time
            /\ th' = [th EXCEPT ![w].pc = "t429_sleep",
                                ![w].wake = clock + (cooldown_seconds
                                               - (clock - last_429_time))]
    /\ UNCHANGED <<clock, limiterVars, login_lock, login_expired, runVars, histVars>>

\* Line 295: the sleep is over, the lock is released, `continue`.
T429Wake(w) ==
    /\ th[w].pc = "t429_sleep"
    /\ clock >= th[w].wake
    /\ rate_limit_lock' = 0
    /\ th' = [th EXCEPT ![w] = NextAttempt([@ EXCEPT !.recv_at = 0])]
    /\ UNCHANGED <<clock, limiterVars, last_429_time, login_lock,
                   login_expired, runVars, histVars>>

\* Status 400 handled as the transport's exceptions are: backoff and retry.
Recv400Retried(w) ==
    /\ th[w].pc = "inflight"
    /\ faults > 0
    /\ faults' = faults - 1
    /\ th' = [th EXCEPT ![w] =
                LET t == [Landed(@) EXCEPT !.seen = @ \cup {"400"}]
                IN  IF t.attempt = max_attempts
                    THEN Return(t, "None")
                    ELSE [t EXCEPT !.pc = "backoff",
                                   !.wake = clock + Backoff(t.attempt)]]
    /\ UNCHANGED <<clock, limiterVars, sessionVars, runVars, login_count, slow>>

\* Lines 297-299: status 400 returns None at once.
Recv400(w) ==
    /\ th[w].pc = "inflight"
    /\ faults > 0
    /\ faults' = faults - 1
    /\ th' = [th EXCEPT ![w] =
                Return([Landed(@) EXCEPT !.seen = @ \cup {"400"}], "None")]
    /\ UNCHANGED <<clock, limiterVars, sessionVars, runVars, login_count, slow>>

\* Lines 301-310: status 401 or 403, or a JSON body whose detail names
\* credentials: auth_error.
RecvAuthFail(w) ==
    /\ th[w].pc = "inflight"
    /\ faults > 0
    /\ faults' = faults - 1
    /\ th' = [th EXCEPT ![w] =
                [Landed(@) EXCEPT !.pc = "auth_lock", !.seen = @ \cup {"401"},
                                  !.auth_epoch = login_count]]
    /\ UNCHANGED <<clock, limiterVars, sessionVars, runVars, login_count, slow>>

\* A re-login that neither waits for login_lock nor looks at login_expired.
AuthLockAnyway(w) ==
    /\ th[w].pc = "auth_lock"
    /\ login_lock' = w
    /\ login_expired' = TRUE
    /\ login_count' = login_count + 1
    /\ th' = [th EXCEPT ![w].pc = "login", ![w].sent_at = clock]
    /\ UNCHANGED <<clock, limiterVars, rate_limit_lock, last_429_time, runVars, faults, slow>>

\* Lines 316-332: under login_lock, the thread that finds login_expired unset
\* sets it and calls login(), whose post (wq_session_core.py line 62) goes out
\* with no wait(); a thread that finds it set returns None.
AuthLock(w) ==
    /\ th[w].pc = "auth_lock"
    /\ login_lock = 0
    /\ IF ~login_expired
       THEN /\ login_lock' = w
            /\ login_expired' = TRUE
            /\ login_count' = login_count + 1
            /\ th' = [th EXCEPT ![w].pc = "login", ![w].sent_at = clock]
       ELSE /\ th' = [th EXCEPT ![w] = Return(@, "None")]
            /\ UNCHANGED <<login_lock, login_expired, login_count>>
    /\ UNCHANGED <<clock, limiterVars, rate_limit_lock, last_429_time, runVars, faults, slow>>

\* login() returns True (line 71): lines 322-325 clear login_expired, release
\* the lock and `continue`.
LoginOk(w) ==
    /\ th[w].pc = "login"
    /\ login_lock' = 0
    /\ login_expired' = FALSE
    /\ th' = [th EXCEPT ![w] = NextAttempt(Landed(@))]
    /\ UNCHANGED <<clock, limiterVars, rate_limit_lock, last_429_time, runVars, histVars>>

\* login() raises (the credentials file, the transport or r.json()): the
\* with block releases login_lock, login_expired stays set, and line 336
\* handles the exception as it does the transport's.
LoginRaise(w) ==
    /\ th[w].pc = "login"
    /\ faults > 0
    /\ faults' = faults - 1
    /\ login_lock' = 0
    /\ th' = [th EXCEPT ![w] =
                LET t == Landed(@)
                IN  IF t.attempt = max_attempts
                    THEN Return(t, "None")
                    ELSE [t EXCEPT !.pc = "backoff",
                                   !.wake = clock + Backoff(t.attempt)]]
    /\ UNCHANGED <<clock, limiterVars, rate_limit_lock, last_429_time,
                   login_expired, runVars, login_count, slow>>

\* Any other status of 400 or more (a 404, a 500) is returned as it is
\* (line 334); such a response is falsy.
RecvErrorStatus(w) ==
    /\ th[w].pc = "inflight"
    /\ faults > 0
    /\ faults' = faults - 1
    /\ th' = [th EXCEPT ![w] = Return(Landed(@), "error_status")]
    /\ UNCHANGED <<clock, limiterVars, sessionVars, runVars, login_count, slow>>

\* What a 2xx response may carry, by the call that asked: a submit's Location
\* header, a poll's progress, alpha or message, a fetch's record; malformed
\* is a response without it (no header, a body that cannot be read).
Bodies(stg) ==
    CASE stg = "submit" -> {"location", "malformed"}
      [] stg = "poll" -> {"progress", "alpha", "message", "malformed"}
      [] stg = "fetch" -> {"data", "malformed"}

\* A 2xx response: line 334 returns it.
RecvOk(w) ==
    /\ th[w].pc = "inflight"
    /\ \E body \in Bodies(th[w].stage) :
          /\ body \in {"message", "malformed"} => faults > 0
          /\ faults' = IF body \in {"message", "malformed"} THEN faults - 1 ELSE faults
          /\ th' = [th EXCEPT ![w] =
                      [Return(Landed(@), body) EXCEPT
                          !.data = IF body = "data" THEN AlphaRecord ELSE @]]
    /\ UNCHANGED <<clock, limiterVars, sessionVars, runVars, login_count, slow>>

\* ------------------------------------------------------ the result CSV
\* A data row of the result CSV (RESULT_CSV_HEADER), its result columns.
Row(j, status, m) ==
    [idea_id |-> j, status |-> status, passed_checks |-> m.passed_checks,
     failed |-> m.failed, sharpe |-> m.sharpe, fitness |-> m.fitness,
     turnover |-> m.turnover, weight |-> m.weight, subsharpe |-> m.subsharpe]

\* _record_failed_simulation, lines 445-460: the metrics of a failed row.
ZeroMetrics ==
    [passed_checks |-> IntCell(0), failed |-> StrCell(""), sharpe |-> IntCell(0),
     fitness |-> IntCell(0), turnover |-> IntCell(0), weight |-> StrCell("FAIL"),
     subsharpe |-> IntCell(0)]

\* The metrics _process_results takes from the fetched record (lines 403-420):
\* the checks' outcome, sharpe, fitness and round(100 * turnover, 2).
AlphaMetrics(data) ==
    LET c == ProcessChecks(data.checks)
    IN  [passed_checks |-> IntCell(c.passed), failed |-> StrCell(Join(c.failed)),
         sharpe |-> FloatCell(data.sharpe), fitness |-> FloatCell(data.fitness),
         turnover |-> FloatCell(100 * data.turnover),
         weight |-> StrCell(c.weight_check), subsharpe |-> c.subsharpe]

\* _write_result_row, lines 471-475: the unflushed rows after one more row.
Flushed(n) == IF n + 1 >= flush_interval THEN 0 ELSE n + 1

\* A row that is returned and not written.
WriteResultRowSkipped(row) ==
    /\ csv' = csv
    /\ UNCHANGED <<unflushed_row_count, flushed, write_lock>>

\* _write_result_row, lines 468-475, by a thread nothing contends with: the
\* row is written, counted and, every flush_interval-th line, flushed.
WriteResultRow(row) ==
    /\ csv' = Append(csv, row)
    /\ unflushed_row_count' = Flushed(unflushed_row_count)
    /\ flushed' = IF unflushed_row_count + 1 >= flush_interval
                  THEN Len(csv) + 2
                  ELSE flushed
    /\ UNCHANGED write_lock

\* The steps of _write_result_row when threads contend for it.  A thread
\* calls it with the row of a job.
WriterCaller(w) ==
    /\ th[w].pc = "idle"
    /\ Len(csv) + Cardinality({v \in Workers : th[v].pc \in {"write_enter", "write_row"}})
          < MaxRows
    /\ \E j \in Jobs : th' = [th EXCEPT ![w].pc = "write_enter", ![w].job = j]
    /\ UNCHANGED <<clock, limiterVars, sessionVars, runVars, histVars>>

\* A write_lock that lets a thread in while another holds it.
WriteLockEnterAnyway(w) ==
    /\ th[w].pc = "write_enter"
    /\ write_lock' = w
    /\ th' = [th EXCEPT ![w].pc = "write_row"]
    /\ UNCHANGED <<clock, limiterVars, sessionVars, queue, result, csv,
                   unflushed_row_count, flushed, trackerVars,
                   processed_simulations, histVars>>

\* Line 469: with self.write_lock.
WriteLockEnter(w) ==
    /\ th[w].pc = "write_enter"
    /\ write_lock = 0
    /\ write_lock' = w
    /\ th' = [th EXCEPT ![w].pc = "write_row"]
    /\ UNCHANGED <<clock, limiterVars, sessionVars, queue, result, csv,
                   unflushed_row_count, flushed, trackerVars,
                   processed_simulations, histVars>>

\* Lines 470-471: writer.writerow(row); _unflushed_row_count += 1.
WriteRow(w) ==
    /\ th[w].pc = "write_row"
    /\ csv' = Append(csv, Row(th[w].job, "failed", ZeroMetrics))
    /\ unflushed_row_count' = unflushed_row_count + 1
    /\ th' = [th EXCEPT ![w].pc = "write_flush"]
    /\ UNCHANGED <<clock, limiterVars, sessionVars, queue, result, write_lock,
                   flushed, trackerVars, processed_simulations, histVars>>

\* Lines 473-475 and the end of the with block: every line written so far is
\* flushed when the count has reached flush_interval; the lock is released.
WriteFlush(w) ==
    /\ th[w].pc = "write_flush"
    /\ IF unflushed_row_count >= flush_interval
       THEN /\ flushed' = Len(csv) + 1
            /\ unflushed_row_count' = 0
       ELSE UNCHANGED <<flushed, unflushed_row_count>>
    /\ write_lock' = IF write_lock = w THEN 0 ELSE write_lock
    /\ th' = [th EXCEPT ![w] = InitThread]
    /\ UNCHANGED <<clock, limiterVars, sessionVars, queue, result, csv,
                   trackerVars, processed_simulations, histVars>>

\* _process_simulation returns: the future of the job holds the row (no
\* row: None), and the thread is free for the next job.
Finish(w, j, rows) ==
    /\ result' = [result EXCEPT ![j] = [state |-> "done", rows |-> rows]]
    /\ th' = [th EXCEPT ![w] = InitThread]

\* A failure row that is written and not counted in processed_simulations.
RecordFailedUncounted(w) ==
    LET row == Row(th[w].job, "failed", ZeroMetrics)
    IN  /\ WriteResultRow(row)
        /\ UNCHANGED processed_simulations
        /\ Finish(w, th[w].job, <<row>>)

\* _record_failed_simulation, lines 440-466: one row with status failed is
\* written and the simulation is added to processed_simulations.
RecordFailed(w) ==
    LET row == Row(th[w].job, "failed", ZeroMetrics)
    IN  /\ WriteResultRow(row)
        /\ processed_simulations' = Append(processed_simulations, th[w].job)
        /\ Finish(w, th[w].job, <<row>>)

\* A response is falsy when there is none or its status is 400 or more.
Falsy(r) == r \in {"None", "error_status"}

\* ------------------------------------------------- _process_simulation
\* A pool whose workers take the next job whether or not they are free.
StartJobEager(w) ==
    /\ queue # <<>>
    /\ queue' = Tail(queue)
    /\ LET j == Head(queue)
       IN  IF login_expired
           THEN Finish(w, j, <<>>)
           ELSE /\ result' = [result EXCEPT ![j].state = "running"]
                /\ th' = [th EXCEPT ![w] = Call([@ EXCEPT !.job = j], "submit")]
    /\ UNCHANGED <<clock, limiterVars, sessionVars, fileVars, trackerVars, histVars>>

\* The first free worker takes the next job of the queue; _process_simulation,
\* lines 172-186: return at once when login_expired, else submit.
StartJob(w) ==
    /\ th[w].pc = "idle"
    /\ \A v \in Workers : v < w => th[v].pc # "idle"
    /\ queue # <<>>
    /\ queue' = Tail(queue)
    /\ LET j == Head(queue)
       IN  IF login_expired
           THEN Finish(w, j, <<>>)
           ELSE /\ result' = [result EXCEPT ![j].state = "running"]
                /\ th' = [th EXCEPT ![w] = Call([@ EXCEPT !.job = j], "submit")]
    /\ UNCHANGED <<clock, limiterVars, sessionVars, fileVars, trackerVars, histVars>>

\* A job that starts to monitor whatever its submission returned.
SubmitReturnUnchecked(w) ==
    /\ th[w].pc = "rwr_ret"
    /\ th[w].stage = "submit"
    /\ th' = [th EXCEPT ![w] =
                 Call([@ EXCEPT !.start_time = clock, !.lat = 0], "poll")]
    /\ UNCHANGED <<result, fileVars>>
    /\ UNCHANGED <<clock, limiterVars, sessionVars, queue, trackerVars, histVars>>

\* _submit_simulation, lines 238-245, and lines 187-191: no response, or one
\* without a Location header, records the failure; a link starts
\* _monitor_simulation (line 351) and its first poll.
SubmitReturn(w) ==
    /\ th[w].pc = "rwr_ret"
    /\ th[w].stage = "submit"
    /\ IF Falsy(th[w].ret) \/ login_expired
       THEN RecordFailed(w)
       ELSE IF th[w].ret = "malformed"
       THEN RecordFailed(w)
       ELSE /\ th' = [th EXCEPT ![w] =
                        Call([@ EXCEPT !.start_time = clock, !.lat = 0], "poll")]
            /\ UNCHANGED <<result, fileVars>>
    /\ UNCHANGED <<clock, limiterVars, sessionVars, queue, trackerVars, histVars>>

\* _monitor_simulation, lines 355-384, and lines 192-196: the loop ends with
\* None (recorded as failed), ends with the alpha link (_process_results
\* fetches the record, line 392), or sleeps before the next poll.
PollReturn(w) ==
    /\ th[w].pc = "rwr_ret"
    /\ th[w].stage = "poll"
    /\ IF Falsy(th[w].ret) \/ login_expired
       THEN RecordFailed(w)
       ELSE IF clock - th[w].start_time > timeout
       THEN RecordFailed(w)
       ELSE IF th[w].ret = "alpha"
       THEN /\ th' = [th EXCEPT ![w] = Call(@, "fetch")]
            /\ UNCHANGED <<result, fileVars>>
       ELSE IF th[w].ret = "progress"
       THEN /\ th' = [th EXCEPT ![w].pc = "poll_sleep",
                                ![w].wake = clock + poll_interval]
            /\ UNCHANGED <<result, fileVars>>
       ELSE RecordFailed(w)
    /\ UNCHANGED <<clock, limiterVars, sessionVars, queue, trackerVars, histVars>>

\* Line 380 ends: the loop polls again (line 354).
PollSleepWake(w) ==
    /\ th[w].pc = "poll_sleep"
    /\ clock >= th[w].wake
    /\ th' = [th EXCEPT ![w] = Call([@ EXCEPT !.wake = 0], "poll")]
    /\ UNCHANGED <<clock, limiterVars, sessionVars, runVars, histVars>>

\* _process_results, lines 394-438: no response or login_expired returns None
\* with no row; a record that cannot be read is logged and returns None with
\* no row; else the completed row is written and returned.
FetchReturn(w) ==
    /\ th[w].pc = "rwr_ret"
    /\ th[w].stage = "fetch"
    /\ IF Falsy(th[w].ret) \/ login_expired
       THEN /\ Finish(w, th[w].job, <<>>)
            /\ UNCHANGED fileVars
       ELSE IF th[w].ret = "malformed"
       THEN /\ Finish(w, th[w].job, <<>>)
            /\ UNCHANGED fileVars
       ELSE LET row == Row(th[w].job, "completed", AlphaMetrics(th[w].data))
            IN  /\ WriteResultRow(row)
                /\ processed_simulations' =
                      Append(processed_simulations, th[w].job)
                /\ Finish(w, th[w].job, <<row>>)
    /\ UNCHANGED <<clock, limiterVars, sessionVars, queue, trackerVars, histVars>>

\* ------------------------------------------- run_simulation_from_tracker
\* A row of the tracker file: its key, its status and its result columns
\* (weight_check takes the result row's weight).
LedgerRow(id, status, m) ==
    [idea_id |-> id, status |-> status, passed_checks |-> m.passed_checks,
     failed |-> m.failed, sharpe |-> m.sharpe, fitness |-> m.fitness,
     turnover |-> m.turnover, weight_check |-> m.weight,
     subsharpe |-> m.subsharpe]

\* The result columns of a row that add_new_idea wrote: all empty.
NoMetrics ==
    [passed_checks |-> NaN, failed |-> NaN, sharpe |-> NaN, fitness |-> NaN,
     turnover |-> NaN, weight |-> NaN, subsharpe |-> NaN]

\* pd.read_csv, line 511: the type it gives a column: int64 when every cell
\* is an int, float64 when every cell is a number or empty, else object.
Dtype(col) ==
    LET kinds == {col[i].k : i \in DOMAIN col}
    IN  IF kinds # {} /\ kinds \subseteq {"int"} THEN "int64"
        ELSE IF kinds \subseteq {"int", "float", "nan"} THEN "float64"
        ELSE "object"

\* pd.read_csv, line 511: the cells of a float64 column are floats; the cells
\* of an object column stay the text they were.
ReadCol(col) ==
    IF Dtype(col) = "float64" THEN [i \in DOMAIN col |-> ToFloat(col[i])] ELSE col

\* df.loc[idx, column] = v, lines 520-530: an int64 column takes an int (or a
\* float without fraction) as it is, turns float for another float and object
\* for a string; a float64 column stores numbers as floats; an object column
\* stores any value as it is.
AssignCol(col, dtype, idx, v) ==
    IF dtype = "int64"
    THEN IF v.k = "int" \/ (v.k = "float" /\ v.n % 100 = 0)
         THEN [col EXCEPT ![idx] = [v EXCEPT !.k = "int"]]
         ELSE IF v.k = "float"
         THEN [i \in DOMAIN col |-> IF i = idx THEN v ELSE ToFloat(col[i])]
         ELSE [col EXCEPT ![idx] = v]
    ELSE IF dtype = "float64"
    THEN [col EXCEPT ![idx] = ToFloat(v)]
    ELSE [col EXCEPT ![idx] = v]

\* df.to_csv, line 532: an empty string prints as a missing value does.
WriteCell(c) == IF c.k = "str" /\ c.s = "" THEN NaN ELSE c

\* The rows of the tracker whose idea_id is that of the result row (line 514);
\* an empty idea_id (0) equals nothing.
MatchIndex(trk, row) ==
    {i \in DOMAIN trk : row.idea_id # 0 /\ trk[i].idea_id = row.idea_id}

\* update_tracker_with_results, lines 511-535: the file is read, the first
\* row of the idea_id takes the result columns of the result row, and the
\* file is written back; without such a row the file is left as it is.
UpdateTracker(trk, row) ==
    IF MatchIndex(trk, row) = {}
    THEN trk
    ELSE LET idx == CHOOSE i \in MatchIndex(trk, row) :
                        \A k \in MatchIndex(trk, row) : i <= k
             Column(c) == [i \in DOMAIN trk |-> trk[i][c]]
             NewCol(c, v) ==
                 LET col == AssignCol(ReadCol(Column(c)), Dtype(Column(c)), idx, v)
                 IN  [i \in DOMAIN trk |-> WriteCell(col[i])]
             passed_checks == NewCol("passed_checks", row.passed_checks)
             failed == NewCol("failed", row.failed)
             sharpe == NewCol("sharpe", row.sharpe)
             fitness == NewCol("fitness", row.fitness)
             turnover == NewCol("turnover", row.turnover)
             weight_check == NewCol("weight_check", row.weight)
             subsharpe == NewCol("subsharpe", row.subsharpe)
         IN  [i \in DOMAIN trk |->
                [idea_id |-> trk[i].idea_id,
                 status |-> IF i = idx THEN row.status ELSE trk[i].status,
                 passed_checks |-> passed_checks[i], failed |-> failed[i],
                 sharpe |-> sharpe[i], fitness |-> fitness[i],
                 turnover |-> turnover[i], weight_check |-> weight_check[i],
                 subsharpe |-> subsharpe[i]]]

\* The processes that run update_tracker_with_results on the tracker file,
\* and a process that is not in it: no result row, no DataFrame.
Processes == 1..NumProcesses
NoUpdate == [pc |-> "idle", row |-> <<>>, df |-> <<>>]

\* _load_parameters_from_tracker, lines 138-165: the idea_ids of the rows
\* whose status is pending, in the order of the file.
LoadParameters(trk) ==
    LET pending_df == SelectSeq(trk, LAMBDA r : r.status = "pending")
    IN  [i \in 1..Len(pending_df) |-> pending_df[i].idea_id]

\* run_simulation_from_tracker, lines 65-99: under the file lock the pending
\* rows are loaded, the file is left as it is, and (when there are any) a
\* future is made for each.
Load ==
    /\ result = <<>>
    /\ queue = <<>>
    /\ queue' = LoadParameters(tracker)
    /\ result' = [j \in {queue'[i] : i \in DOMAIN queue'} |->
                    [state |-> "queued", rows |-> <<>>]]
    /\ tracker' = tracker
    /\ UNCHANGED <<file_lock, updater>>
    /\ UNCHANGED <<clock, th, limiterVars, sessionVars, fileVars, histVars>>

\* The Timeout of a failed update ends the loop: the other futures are
\* abandoned.
CollectAborting(j) ==
    /\ result[j].state = "done"
    /\ \/ /\ result' = [result EXCEPT ![j].state = "collected"]
          /\ tracker' = IF result[j].rows # <<>>
                        THEN UpdateTracker(tracker, result[j].rows[1])
                        ELSE tracker
          /\ UNCHANGED faults
       \/ /\ result[j].rows # <<>>
          /\ faults > 0
          /\ faults' = faults - 1
          /\ result' = [k \in DOMAIN result |->
                          [result[k] EXCEPT !.state = IF k = j THEN "collected"
                                                      ELSE "abandoned"]]
          /\ tracker' = tracker
    /\ UNCHANGED <<file_lock, updater>>
    /\ UNCHANGED <<clock, th, limiterVars, sessionVars, queue, fileVars,
                   login_count, slow>>

\* Lines 102-114: the coordinating thread takes a completed future and, when
\* it holds a row, updates the tracker; when FileLock(timeout=20) (line 510)
\* cannot be acquired, its Timeout is caught and logged (lines 112-114) and
\* the loop goes on.
Collect(j) ==
    /\ result[j].state = "done"
    /\ result' = [result EXCEPT ![j].state = "collected"]
    /\ \/ /\ tracker' = IF result[j].rows # <<>>
                        THEN UpdateTracker(tracker, result[j].rows[1])
                        ELSE tracker
          /\ UNCHANGED faults
       \/ /\ result[j].rows # <<>>
          /\ faults > 0
          /\ faults' = faults - 1
          /\ tracker' = tracker
    /\ UNCHANGED <<file_lock, updater>>
    /\ UNCHANGED <<clock, th, limiterVars, sessionVars, queue, fileVars,
                   login_count, slow>>

\* ------------------------------------------------------------------ time
\* The thread can take a step now: it is not asleep, not waiting for a lock
\* another holds, not waiting for the remote service or the operator, and
\* not out of work.
Runnable(w) ==
    LET p == th[w].pc
    IN  CASE p = "idle" -> queue # <<>>
          [] p \in {"rw_sleep", "wait_sleep", "t429_sleep", "backoff", "poll_sleep"}
                -> clock >= th[w].wake
          [] p \in {"rw_lock", "t429_lock"} -> rate_limit_lock = 0
          [] p = "wait_enter" -> limiter_lock = 0
          [] p = "auth_lock" -> login_lock = 0
          [] p \in {"inflight", "login", "input"} -> FALSE
          [] OTHER -> TRUE

\* The calls in flight that were sent at time t.
InFlight(t) == {w \in Workers : th[w].pc \in {"inflight", "login"} /\ th[w].sent_at = t}

\* Time passes while no thread can take a step, no completed future waits
\* for the coordinating thread, and the remote service may still be slow.
Tick ==
    /\ clock < MaxTime
    /\ \A w \in Workers : ~Runnable(w)
    /\ \A j \in DOMAIN result : result[j].state # "done"
    /\ \E w \in Workers : th[w].pc # "idle"
    /\ \A w \in Workers :
          th[w].pc \in {"inflight", "login"} => clock - th[w].sent_at < MaxLatency
    /\ slow + Cardinality(InFlight(clock)) <= MaxSlow
    /\ slow' = slow + Cardinality(InFlight(clock))
    /\ clock' = clock + 1
    /\ UNCHANGED <<th, limiterVars, sessionVars, runVars, login_count, faults>>

\* ---------------------------------------------------------- specifications
\* WQSession.__init__ and WQSimulation.__init__, and the result CSV once
\* line 91 has written its header.
InitSession ==
    /\ clock = Epoch
    /\ last_call = 0
    /\ limiter_lock = 0
    /\ rate_limit_lock = 0
    /\ last_429_time = 0
    /\ login_lock = 0
    /\ login_expired = FALSE
    /\ csv = <<>>
    /\ unflushed_row_count = 1
    /\ write_lock = 0
    /\ flushed = 0
    /\ processed_simulations = <<>>
    /\ login_count = 0
    /\ slow = 0
    /\ file_lock = 0
    /\ updater = [p \in Processes |-> NoUpdate]

\* The tracker holds n pending rows, and a future waits for each.
InitJobs(n) ==
    /\ result = [j \in 1..n |-> [state |-> "queued", rows |-> <<>>]]
    /\ tracker = [j \in 1..n |-> LedgerRow(j, "pending", NoMetrics)]

InitRun ==
    /\ InitSession
    /\ InitJobs(NumJobs)

\* run_simulation_from_tracker, lines 69-99: the pending rows of the tracker
\* are handed to the pool in order.
Init ==
    /\ InitRun
    /\ queue = [i \in 1..NumJobs |-> i]
    /\ th = [w \in Workers |-> InitThread]
    /\ faults = MaxFaults

Next ==
    \/ \E w \in Workers : StartJob(w)
    \/ \E w \in Workers : RwNow(w)
    \/ \E w \in Workers : RwCooldown(w)
    \/ \E w \in Workers : RwCooldownWake(w)
    \/ \E w \in Workers : WaitEnter(w)
    \/ \E w \in Workers : WaitCheck(w)
    \/ \E w \in Workers : WaitGrant(w)
    \/ \E w \in Workers : Send(w)
    \/ \E w \in Workers : RecvException(w)
    \/ \E w \in Workers : BackoffWake(w)
    \/ \E w \in Workers : Recv429(w)
    \/ \E w \in Workers : T429Lock(w)
    \/ \E w \in Workers : T429Wake(w)
    \/ \E w \in Workers : Recv400(w)
    \/ \E w \in Workers : RecvAuthFail(w)
    \/ \E w \in Workers : AuthLock(w)
    \/ \E w \in Workers : LoginOk(w)
    \/ \E w \in Workers : LoginRaise(w)
    \/ \E w \in Workers : RecvErrorStatus(w)
    \/ \E w \in Workers : RecvOk(w)
    \/ \E w \in Workers : SubmitReturn(w)
    \/ \E w \in Workers : PollReturn(w)
    \/ \E w \in Workers : PollSleepWake(w)
    \/ \E w \in Workers : FetchReturn(w)
    \/ \E j \in DOMAIN result : Collect(j)
    \/ Tick

\* One run of run_simulation_from_tracker.
Spec == Init /\ [][Next]_vars

\* The caller of request_with_retry takes what it returned.
CallerReturns(w) ==
    /\ th[w].pc = "rwr_ret"
    /\ th' = [th EXCEPT ![w] = InitThread]
    /\ UNCHANGED <<clock, limiterVars, sessionVars, runVars, histVars>>

InitRetry ==
    /\ InitRun
    /\ queue = <<>>
    /\ th = [w \in Workers |-> Call(InitThread, "submit")]
    /\ faults = RetryFaults

NextRetry ==
    \/ \E w \in Workers : RwNow(w)
    \/ \E w \in Workers : RwCooldown(w)
    \/ \E w \in Workers : RwCooldownWake(w)
    \/ \E w \in Workers : WaitEnter(w)
    \/ \E w \in Workers : WaitCheck(w)
    \/ \E w \in Workers : WaitGrant(w)
    \/ \E w \in Workers : Send(w)
    \/ \E w \in Workers : RecvException(w)
    \/ \E w \in Workers : BackoffWake(w)
    \/ \E w \in Workers : Recv429(w)
    \/ \E w \in Workers : T429Lock(w)
    \/ \E w \in Workers : T429Wake(w)
    \/ \E w \in Workers : Recv400(w)
    \/ \E w \in Workers : RecvAuthFail(w)
    \/ \E w \in Workers : AuthLock(w)
    \/ \E w \in Workers : LoginOk(w)
    \/ \E w \in Workers : LoginRaise(w)
    \/ \E w \in Workers : RecvErrorStatus(w)
    \/ \E w \in Workers : RecvOk(w)
    \/ \E w \in Workers : CallerReturns(w)
    \/ Tick

\* Each thread makes one call of request_with_retry, whatever the remote
\* service and the transport answer.
SpecRetry == InitRetry /\ [][NextRetry]_vars

InitLimiter ==
    /\ InitRun
    /\ queue = <<>>
    /\ th = [w \in Workers |-> [InitThread EXCEPT !.pc = "wait_enter"]]
    /\ faults = 0

NextLimiter ==
    \/ \E w \in Workers : WaitEnter(w)
    \/ \E w \in Workers : WaitCheck(w)
    \/ \E w \in Workers : WaitGrant(w)
    \/ \E w \in Workers : LimiterCaller(w)
    \/ TickFree

\* Any number of wait() calls by the threads, under any schedule and delay.
SpecLimiter == InitLimiter /\ [][NextLimiter]_vars

InitStagger ==
    /\ InitRun
    /\ queue = <<>>
    /\ th = [w \in Workers |-> Call(InitThread, "submit")]
    /\ faults = 0

NextStagger ==
    \/ \E w \in Workers : RwNow(w)
    \/ \E w \in Workers : RwCooldown(w)
    \/ \E w \in Workers : WaitEnter(w)
    \/ \E w \in Workers : WaitCheck(w)
    \/ \E w \in Workers : WaitGrant(w)
    \/ \E w \in Workers : Send(w)
    \/ TickFree

\* Every thread of the pool starts its submit at the same time, up to the
\* moment its request goes out, under any schedule and delay.
SpecStagger == InitStagger /\ [][NextStagger]_vars

\* The worker threads write rows to the result CSV that line 91 has opened.
InitFlush ==
    /\ InitRun
    /\ queue = <<>>
    /\ th = [w \in Workers |-> InitThread]
    /\ faults = 0

NextFlush ==
    \/ \E w \in Workers : WriterCaller(w)
    \/ \E w \in Workers : WriteLockEnter(w)
    \/ \E w \in Workers : WriteRow(w)
    \/ \E w \in Workers : WriteFlush(w)

SpecFlush == InitFlush /\ [][NextFlush]_vars

\* The names and results of the checks of a record, and the lists of checks
\* a record may carry.
CheckNames == {"LOW_SHARPE", "LOW_FITNESS", "CONCENTRATED_WEIGHT",
               "LOW_SUB_UNIVERSE_SHARPE"}
CheckResults == {"PASS", "FAIL", "ERROR"}
CheckLists ==
    UNION {[1..n -> {Check(name, res) : name \in CheckNames, res \in CheckResults}] :
             n \in 0..MaxChecks}

\* _process_results at line 397: the fetch of job 1 has returned a record
\* with any list of checks.
InitChecks ==
    /\ InitSession
    /\ result = [j \in Jobs |-> [state |-> IF j = 1 THEN "running" ELSE "collected",
                                 rows |-> <<>>]]
    /\ tracker = [j \in Jobs |-> LedgerRow(j, "pending", NoMetrics)]
    /\ queue = <<>>
    /\ faults = 0
    /\ \E checks \in CheckLists :
          th = [w \in Workers |->
                  IF w = 1
                  THEN [Return([InitThread EXCEPT !.job = 1, !.stage = "fetch"], "data")
                          EXCEPT !.data = [AlphaRecord EXCEPT !.checks = checks]]
                  ELSE InitThread]

NextChecks ==
    \/ \E w \in Workers : FetchReturn(w)
    \/ \E j \in DOMAIN result : Collect(j)

SpecChecks == InitChecks /\ [][NextChecks]_vars

\* The pool of line 94 with more jobs than workers and a remote service that
\* answers every call.
InitPool ==
    /\ InitSession
    /\ InitJobs(PoolJobs)
    /\ queue = [i \in 1..PoolJobs |-> i]
    /\ th = [w \in Workers |-> InitThread]
    /\ faults = 0

NextPool ==
    \/ \E w \in Workers : StartJob(w)
    \/ \E w \in Workers : RwNow(w)
    \/ \E w \in Workers : RwCooldown(w)
    \/ \E w \in Workers : WaitEnter(w)
    \/ \E w \in Workers : WaitCheck(w)
    \/ \E w \in Workers : WaitGrant(w)
    \/ \E w \in Workers : Send(w)
    \/ \E w \in Workers : RecvOk(w)
    \/ \E w \in Workers : SubmitReturn(w)
    \/ \E w \in Workers : PollReturn(w)
    \/ \E w \in Workers : PollSleepWake(w)
    \/ \E w \in Workers : FetchReturn(w)
    \/ \E j \in DOMAIN result : Collect(j)
    \/ Tick

SpecPool == InitPool /\ [][NextPool]_vars

\* ------------------------------------------------------- the run to its end
\* wq_session_core.py lines 63-69: the answer to login()'s post has no
\* 'user', and login() calls input(): the thread waits for the operator, in
\* login(), holding login_lock, with login_expired set.
LoginPrompt(w) ==
    /\ th[w].pc = "login"
    /\ th' = [th EXCEPT ![w].pc = "input"]
    /\ UNCHANGED <<clock, limiterVars, sessionVars, runVars, histVars>>

\* The operator presses enter: input() returns, login() returns True (line
\* 71; after an 'inquiry' it posts once more first, and does not look at the
\* answer), and lines 322-325 go on as after any login.
PressEnter(w) ==
    /\ th[w].pc = "input"
    /\ login_lock' = 0
    /\ login_expired' = FALSE
    /\ th' = [th EXCEPT ![w] = NextAttempt(Landed(@))]
    /\ UNCHANGED <<clock, limiterVars, rate_limit_lock, last_429_time, runVars, histVars>>

\* The standard input is at its end: input() raises EOFError, the with block
\* releases login_lock, login_expired stays set, and line 336 handles the
\* exception.
InputEOF(w) ==
    /\ th[w].pc = "input"
    /\ login_lock' = 0
    /\ th' = [th EXCEPT ![w] =
                LET t == Landed(@)
                IN  IF t.attempt = max_attempts
                    THEN Return(t, "None")
                    ELSE [t EXCEPT !.pc = "backoff",
                                   !.wake = clock + Backoff(t.attempt)]]
    /\ UNCHANGED <<clock, limiterVars, rate_limit_lock, last_429_time,
                   login_expired, runVars, histVars>>

\* Time passes as in Tick, for as long as a run can last, while a thread
\* sleeps or awaits an answer of the remote service; how long a thread waits
\* for the operator is not counted.
TickFair ==
    /\ clock < Epoch + FairHorizon
    /\ \A w \in Workers : ~Runnable(w)
    /\ \A j \in DOMAIN result : result[j].state # "done"
    /\ \E w \in Workers :
          th[w].pc \in {"rw_sleep", "wait_sleep", "t429_sleep", "backoff",
                        "poll_sleep", "inflight", "login"}
    /\ \A w \in Workers :
          th[w].pc \in {"inflight", "login"} => clock - th[w].sent_at < MaxLatency
    /\ slow + Cardinality(InFlight(clock)) <= MaxSlow
    /\ slow' = slow + Cardinality(InFlight(clock))
    /\ clock' = clock + 1
    /\ UNCHANGED <<th, limiterVars, sessionVars, runVars, login_count, faults>>

\* run_simulation_from_tracker, lines 69-99, with n pending rows in the
\* tracker and a remote service that may fail FairFaults \div n times: one
\* job, and every call of a request may fail, or two jobs and one failure.
\* Any poll may be answered with progress.
InitFair ==
    /\ InitSession
    /\ \E n \in 1..NumJobs :
          /\ InitJobs(n)
          /\ queue = [i \in 1..n |-> i]
          /\ faults = FairFaults \div n
    /\ th = [w \in Workers |-> InitThread]

\* The steps of the pool's threads and of the coordinating thread, the
\* answers of the remote service, and the passing of time.
Scheduled ==
    \/ \E w \in Workers : StartJob(w)
    \/ \E w \in Workers : RwNow(w)
    \/ \E w \in Workers : RwCooldown(w)
    \/ \E w \in Workers : RwCooldownWake(w)
    \/ \E w \in Workers : WaitEnter(w)
    \/ \E w \in Workers : WaitCheck(w)
    \/ \E w \in Workers : WaitGrant(w)
    \/ \E w \in Workers : Send(w)
    \/ \E w \in Workers : RecvException(w)
    \/ \E w \in Workers : BackoffWake(w)
    \/ \E w \in Workers : Recv429(w)
    \/ \E w \in Workers : T429Lock(w)
    \/ \E w \in Workers : T429Wake(w)
    \/ \E w \in Workers : Recv400(w)
    \/ \E w \in Workers : RecvAuthFail(w)
    \/ \E w \in Workers : AuthLock(w)
    \/ \E w \in Workers : LoginOk(w)
    \/ \E w \in Workers : LoginRaise(w)
    \/ \E w \in Workers : LoginPrompt(w)
    \/ \E w \in Workers : RecvErrorStatus(w)
    \/ \E w \in Workers : RecvOk(w)
    \/ \E w \in Workers : SubmitReturn(w)
    \/ \E w \in Workers : PollReturn(w)
    \/ \E w \in Workers : PollSleepWake(w)
    \/ \E w \in Workers : FetchReturn(w)
    \/ \E j \in DOMAIN result : Collect(j)
    \/ TickFair

\* What the operator's terminal does is not scheduled.
NextFair ==
    \/ Scheduled
    \/ \E w \in Workers : PressEnter(w)
    \/ \E w \in Workers : InputEOF(w)

\* One run under fair scheduling: the threads are scheduled while they can
\* take a step, every call that was sent is answered, and time passes.
SpecFair == InitFair /\ [][NextFair]_vars /\ WF_vars(Scheduled)

\* The subsharpe cells the code writes: none yet, the default -1, ERROR, and
\* a check's value.
SubsharpeCells == {NaN, IntCell(-1), StrCell("ERROR"), FloatCell(80)}

\* Tracker rows: pending or completed, with any subsharpe cell.
LedgerRows ==
    {LedgerRow(id, st, [(IF st = "pending" THEN NoMetrics
                         ELSE AlphaMetrics(AlphaRecord)) EXCEPT !.subsharpe = c]) :
        id \in 1..NumJobs, st \in {"pending", "completed"}, c \in SubsharpeCells}

\* Result rows: failed or completed, for an idea_id of the tracker, for one
\* it does not hold (NumJobs + 1) and for an empty one (0).
ResultRows ==
    {Row(id, "failed", ZeroMetrics) : id \in 0..(NumJobs + 1)}
    \cup {Row(id, "completed", [AlphaMetrics(AlphaRecord) EXCEPT !.subsharpe = c]) :
            id \in 0..(NumJobs + 1), c \in SubsharpeCells \ {NaN}}

InitLedger ==
    /\ InitSession
    /\ tracker \in [1..NumRows -> LedgerRows]
    /\ result \in [Jobs -> {[state |-> "done", rows |-> f] :
                               f \in {<<>>} \cup {<<r>> : r \in ResultRows}}]
    /\ queue = <<>>
    /\ th = [w \in Workers |-> InitThread]
    /\ faults = LedgerFaults

NextLedger == \E j \in DOMAIN result : Collect(j)

\* The loop of the coordinating thread over completed futures, for any
\* tracker content and any result rows.
SpecLedger == InitLedger /\ [][NextLedger]_vars

\* A run that has not loaded the tracker yet: the tracker holds a row for
\* each idea_id, pending or completed.
InitLoad ==
    /\ InitSession
    /\ tracker \in {t \in [1..NumRows -> LedgerRows] :
                       \A i \in 1..NumRows : t[i].idea_id = i}
    /\ result = <<>>
    /\ queue = <<>>
    /\ th = [w \in Workers |-> InitThread]
    /\ faults = 0

NextLoad == Load

SpecLoad == InitLoad /\ [][NextLoad]_vars

\* Line 110: process p calls update_tracker_with_results with the result row
\* of its job, whose idea_id no other process works on.
UpdCall(p) ==
    /\ updater[p].pc = "idle"
    /\ \E r \in ResultRows :
          /\ r.idea_id = p
          /\ updater' = [updater EXCEPT ![p] = [pc |-> "lock", row |-> <<r>>,
                                                df |-> <<>>]]
    /\ UNCHANGED <<clock, th, limiterVars, sessionVars, queue, result, fileVars,
                   tracker, file_lock, histVars>>

\* A file lock that a process gets while another holds it.
UpdAcquireAnyway(p) ==
    /\ updater[p].pc = "lock"
    /\ file_lock' = p
    /\ updater' = [updater EXCEPT ![p].pc = "read"]
    /\ UNCHANGED <<clock, th, limiterVars, sessionVars, queue, result, fileVars,
                   tracker, histVars>>

\* Line 510: with FileLock(lock_file, timeout=20), acquired.
UpdAcquire(p) ==
    /\ updater[p].pc = "lock"
    /\ file_lock = 0
    /\ file_lock' = p
    /\ updater' = [updater EXCEPT ![p].pc = "read"]
    /\ UNCHANGED <<clock, th, limiterVars, sessionVars, queue, result, fileVars,
                   tracker, histVars>>

\* Line 510: the lock is still held after 20 seconds: Timeout is raised and
\* the update is given up (lines 112-114).
UpdTimeout(p) ==
    /\ updater[p].pc = "lock"
    /\ file_lock # 0
    /\ faults > 0
    /\ faults' = faults - 1
    /\ updater' = [updater EXCEPT ![p].pc = "timeout"]
    /\ UNCHANGED <<clock, th, limiterVars, sessionVars, queue, result, fileVars,
                   tracker, file_lock, login_count, slow>>

\* Line 511: df = pd.read_csv(tracker_path).
UpdRead(p) ==
    /\ updater[p].pc = "read"
    /\ updater' = [updater EXCEPT ![p].pc = "write", ![p].df = tracker]
    /\ UNCHANGED <<clock, th, limiterVars, sessionVars, queue, result, fileVars,
                   tracker, file_lock, histVars>>

\* Lines 513-535: the row of the idea_id is assigned in df and df is written
\* over the file (no such row: nothing is written).
UpdWrite(p) ==
    /\ updater[p].pc = "write"
    /\ tracker' = IF MatchIndex(updater[p].df, updater[p].row[1]) = {}
                  THEN tracker
                  ELSE UpdateTracker(updater[p].df, updater[p].row[1])
    /\ updater' = [updater EXCEPT ![p].pc = "release"]
    /\ UNCHANGED <<clock, th, limiterVars, sessionVars, queue, result, fileVars,
                   file_lock, histVars>>

\* The with block of line 510 ends: the lock is released.
UpdRelease(p) ==
    /\ updater[p].pc = "release"
    /\ file_lock' = IF file_lock = p THEN 0 ELSE file_lock
    /\ updater' = [updater EXCEPT ![p].pc = "done"]
    /\ UNCHANGED <<clock, th, limiterVars, sessionVars, queue, result, fileVars,
                   tracker, histVars>>

\* Processes update a tracker that holds a row for each idea_id.
InitUpdates ==
    /\ InitSession
    /\ tracker \in {t \in [1..NumRows -> LedgerRows] :
                       \A i \in 1..NumRows : t[i].idea_id = i}
    /\ result = <<>>
    /\ queue = <<>>
    /\ th = [w \in Workers |-> InitThread]
    /\ faults = LedgerFaults

NextUpdates ==
    \/ \E p \in Processes : UpdCall(p)
    \/ \E p \in Processes : UpdAcquire(p)
    \/ \E p \in Processes : UpdTimeout(p)
    \/ \E p \in Processes : UpdRead(p)
    \/ \E p \in Processes : UpdWrite(p)
    \/ \E p \in Processes : UpdRelease(p)

SpecUpdates == InitUpdates /\ [][NextUpdates]_vars

\* ------------------------------------------------------------------ claims
\* The data rows of the result CSV that carry idea_id j.
RowsOf(j) == {i \in 1..Len(csv) : csv[i].idea_id = j}

\* run_simulation_from_tracker has returned: every future was taken.
RunReturned == \A j \in Jobs : result[j].state = "collected"

\* Thread w takes a step.
Steps(w) == th'[w] # th[w]

\* C1: when run() returns, every dispatched job has exactly one data row in
\* the result CSV, whatever path the job took.
C1_OneRowPerJob ==
    RunReturned => \A j \in Jobs : Cardinality(RowsOf(j)) = 1

\* C2: login() runs once per expiry: a thread executes login() only if no
\* login() has been made since its own auth failure arrived.
C2_SingleFlightLogin ==
    \A w \in Workers : th[w].pc = "login" => th[w].auth_epoch = login_count - 1

\* C3: a call sent once a 429 has opened a cooldown window at last_429_time is
\* not answered with success before last_429_time + cooldown_seconds.
C3_NoSuccessInCooldown ==
    [][\A w \in Workers :
          (/\ th[w].pc = "inflight"
           /\ th'[w].pc = "rwr_ret"
           /\ ~Falsy(th'[w].ret))
          => ~(/\ last_429_time > 0
               /\ last_429_time <= th[w].sent_at
               /\ clock < last_429_time + cooldown_seconds)]_vars

\* C4: a retry after a 429 consumes no attempt: a request_with_retry call that
\* met nothing but 429 responses does not return failure.
C4_ThrottleRetryUncounted ==
    \A w \in Workers :
        (th[w].pc = "rwr_ret" /\ th[w].seen = {"429"}) => th[w].ret # "None"

\* C5: wait() reads and advances last_call while holding the limiter's lock;
\* each grant is at least min_interval after the grant before it, is made
\* from the last_call value that grant left, and last_call never decreases.
C5_LimiterSpacing ==
    /\ [](\A w \in Workers :
            th[w].pc \in {"wait_check", "wait_sleep"} => limiter_lock = w)
    /\ [][\A w \in Workers :
            (th[w].pc = "wait_sleep" /\ th'[w].pc = "send")
            => /\ limiter_lock = w
               /\ th[w].lc_read = last_call
               /\ last_call' = clock
               /\ last_call' - last_call >= min_interval]_vars
    /\ [][last_call' >= last_call]_vars

\* Two threads have been granted, the later at least min_interval after the
\* construction time at which the first could be.
C5_Witness ==
    /\ \A w \in Workers : th[w].pc = "send" /\ th[w].has_grant
    /\ last_call >= Epoch + min_interval

\* C6: every outbound call (submit, poll, fetch, the wrapper's own retries and
\* login()'s post) is started by a thread that holds a grant of wait() it has
\* not used yet.
C6_EveryCallGated ==
    [][\A w \in Workers :
          (\/ th'[w].ncalls > th[w].ncalls
           \/ (th'[w].pc = "login" /\ th[w].pc # "login"))
          => th[w].has_grant]_vars

\* C7: when the transport raises on every try, one request_with_retry call
\* makes at most max_attempts transport calls.
C7_BoundedTransportCalls ==
    \A w \in Workers : th[w].seen = {"exc"} => th[w].ncalls <= max_attempts

\* C8: a 400 makes request_with_retry return None at once (after one call when
\* it is the first response); the steps of the thread from the 400 to the end
\* of the job leave last_429_time alone; and the submit that got it writes one
\* row with status failed and zeroed metrics and ends the job, with no poll
\* and no fetch.
C8_BadRequestFailsAtOnce ==
    /\ [](\A w \in Workers :
            "400" \in th[w].seen
            => /\ th[w].pc = "rwr_ret"
               /\ th[w].ret = "None"
               /\ (th[w].seen = {"400"} => th[w].ncalls = 1))
    /\ [][\A w \in Workers :
            (Steps(w) /\ ("400" \in th[w].seen \/ "400" \in th'[w].seen))
            => last_429_time' = last_429_time]_vars
    /\ [][\A w \in Workers :
            (Steps(w) /\ "400" \in th[w].seen /\ th[w].stage = "submit")
            => /\ Len(csv') = Len(csv) + 1
               /\ LET row == csv'[Len(csv')]
                  IN  /\ row.idea_id = th[w].job
                      /\ row.status = "failed"
                      /\ row.passed_checks = IntCell(0)
                      /\ row.sharpe = IntCell(0)
                      /\ row.fitness = IntCell(0)
                      /\ row.turnover = IntCell(0)
                      /\ result'[th[w].job] = [state |-> "done", rows |-> <<row>>]
               /\ th'[w].pc = "idle"]_vars

\* The submit of a job got a 400 as its first response and has returned None.
C8_Witness ==
    \E w \in Workers :
        /\ th[w].pc = "rwr_ret"
        /\ th[w].stage = "submit"
        /\ th[w].seen = {"400"}
        /\ th[w].ret = "None"
        /\ th[w].ncalls = 1

\* C9: a job whose monitoring loop exceeds the timeout is recorded with
\* status timeout, not failed.
C9_TimeoutStatus ==
    [][\A w \in Workers :
          (/\ Steps(w)
           /\ th[w].pc = "rwr_ret"
           /\ th[w].stage = "poll"
           /\ ~Falsy(th[w].ret)
           /\ ~login_expired
           /\ clock - th[w].start_time > timeout)
          => /\ Len(csv') = Len(csv) + 1
             /\ csv'[Len(csv')].idea_id = th[w].job
             /\ csv'[Len(csv')].status = "timeout"]_vars

\* C10: a monitor whose polls return progress has returned timeout +
\* poll_interval after it started, the time the remote service took to answer
\* its polls not counted.
C10_MonitorBounded ==
    \A w \in Workers :
        th[w].stage = "poll"
        => clock - th[w].start_time
              <= timeout + poll_interval + th[w].lat
                 + (IF th[w].pc = "inflight" THEN clock - th[w].sent_at ELSE 0)

\* C11: once login_expired is set and no login() is in progress (the re-login
\* did not succeed, and nothing clears the flag again), no thread makes a
\* further transport call.
C11_NoCallOnceAuthExpired ==
    [][(login_expired /\ login_lock = 0)
          => \A w \in Workers : th'[w].ncalls <= th[w].ncalls]_vars

\* C14: a job that was dispatched is started, whatever happened to the other
\* jobs: its future does not complete before the job has run.
C14_EveryJobStarted ==
    [][\A j \in Jobs :
          result[j].state = "queued" => result'[j].state \in {"queued", "running"}]_vars

\* C17: a thread whose 429 arrived while the cooldown window opened at
\* last_429_time was still running opens no second window and sleeps no
\* longer than to the end of that window.
C17_SecondObserverSleepsRemainder ==
    [][\A w \in Workers :
          (/\ th[w].pc = "t429_lock"
           /\ th'[w].pc = "t429_sleep"
           /\ last_429_time > 0
           /\ th[w].recv_at >= last_429_time
           /\ th[w].recv_at < last_429_time + cooldown_seconds)
          => /\ last_429_time' = last_429_time
             /\ th'[w].wake <= last_429_time + cooldown_seconds]_vars

\* C16: the submit requests of jobs started together are sent at times that
\* are pairwise at least min_interval apart.
C16_SubmitsStaggered ==
    \A v, w \in Workers :
        (v # w /\ th[v].pc = "inflight" /\ th[w].pc = "inflight")
        => \/ th[v].sent_at - th[w].sent_at >= min_interval
           \/ th[w].sent_at - th[v].sent_at >= min_interval

\* C12: update_tracker_with_results applied a second time with the same result
\* row leaves every row of the tracker file as the first application left it.
C12_UpdateIdempotent ==
    \A j \in Jobs :
        result[j].rows # <<>>
        => LET once == UpdateTracker(tracker, result[j].rows[1])
           IN  UpdateTracker(once, result[j].rows[1]) = once

\* C13: an update whose idea_id matches no tracker row, or whose file lock
\* times out, leaves the tracker as it is and ends with that future taken
\* and every other future as it was, still to be taken.
C13_FailedUpdateSkipped ==
    [][\A j \in Jobs :
          (/\ result[j].state = "done"
           /\ result'[j].state # "done"
           /\ result[j].rows # <<>>
           /\ \/ \A i \in DOMAIN tracker :
                    tracker[i].idea_id # result[j].rows[1].idea_id
              \/ faults' < faults)
          => /\ tracker' = tracker
             /\ result' = [result EXCEPT ![j].state = "collected"]]_vars

\* Every future was taken although the file lock timed out once and a result
\* row matched no tracker row.
C13_Witness ==
    /\ \A j \in Jobs : result[j].state = "collected"
    /\ faults < LedgerFaults
    /\ \E j \in Jobs :
          /\ result[j].rows # <<>>
          /\ \A i \in DOMAIN tracker :
                tracker[i].idea_id # result[j].rows[1].idea_id

\* The jobs a worker has started and not finished.
RunningJobs == {j \in DOMAIN result : result[j].state = "running"}

\* C15: at most as many jobs as the pool has workers are between their start
\* and their end, each of them is the job of exactly one worker, and a worker
\* takes a job only when it has none in progress.
C15_BoundedPool ==
    /\ [](/\ Cardinality(RunningJobs) <= NumWorkers
          /\ \A j \in RunningJobs :
                Cardinality({w \in Workers : th[w].pc # "idle" /\ th[w].job = j}) = 1
          /\ \A w \in Workers : th[w].pc # "idle" => th[w].job \in RunningJobs)
    /\ [][\A w \in Workers :
            (th'[w].pc # "idle" /\ th'[w].job # th[w].job)
               => /\ th[w].pc = "idle"
                  /\ \A j \in RunningJobs : th[w].job # j]_vars

\* A worker runs the job beyond the pool's size while the other workers are
\* still busy with theirs.
C15_Witness ==
    /\ queue = <<>>
    /\ Cardinality(RunningJobs) = NumWorkers
    /\ \E w \in Workers : th[w].pc = "inflight" /\ th[w].job = PoolJobs

\* C18: the stages of a job follow one another: a worker starts to poll only
\* when its submit call returned a link, starts the fetch only when a poll
\* returned the alpha, leaves a failed submit or monitor stage with a failure
\* row and no further call, and once a job has a row in the result CSV no
\* worker is at work on it.
C18_StagesOrdered ==
    /\ [](\A i \in DOMAIN csv : \A w \in Workers :
             th[w].pc # "idle" => th[w].job # csv[i].idea_id)
    /\ [][\A w \in Workers :
            /\ (th'[w].stage = "poll" /\ th[w].stage # "poll")
                  => /\ th[w].stage = "submit"
                     /\ th[w].pc = "rwr_ret"
                     /\ th[w].ret = "location"
            /\ (th'[w].stage = "fetch" /\ th[w].stage # "fetch")
                  => /\ th[w].stage = "poll"
                     /\ th[w].pc = "rwr_ret"
                     /\ th[w].ret = "alpha"
            /\ (/\ th[w].pc = "rwr_ret"
                /\ th[w].stage \in {"submit", "poll"}
                /\ Falsy(th[w].ret) \/ login_expired
                /\ Steps(w))
                  => /\ th'[w].pc = "idle"
                     /\ Len(csv') = Len(csv) + 1
                     /\ csv'[Len(csv')].idea_id = th[w].job
                     /\ csv'[Len(csv')].status = "failed"
            /\ th'[w].ncalls > th[w].ncalls
                  => th[w].stage \in {"submit", "poll", "fetch"}]_vars

\* One job failed in an earlier stage and has its failure row while another
\* job's fetch call is out.
C18_Witness ==
    /\ \E i \in DOMAIN csv : csv[i].status = "failed"
    /\ \E w \in Workers : th[w].stage = "fetch" /\ th[w].pc = "inflight"

\* C19: the row a fetch writes is completed; its passed_checks is the number
\* of checks whose result is PASS, its failed column the comma-joined names of
\* the checks whose result is FAIL in the order of the list, and its weight
\* the result of the (last) CONCENTRATED_WEIGHT check, UNKNOWN without one;
\* the row is what the job returns.
C19_FetchBuildsResult ==
    [][\A w \in Workers :
         (th[w].pc = "rwr_ret" /\ th[w].stage = "fetch" /\ Len(csv') = Len(csv) + 1)
            => LET checks == th[w].data.checks
                   row == csv'[Len(csv')]
                   fails == SelectSeq(checks, LAMBDA c : c.result = "FAIL")
                   cw == {i \in DOMAIN checks : checks[i].name = "CONCENTRATED_WEIGHT"}
               IN  /\ row.status = "completed"
                   /\ row.idea_id = th[w].job
                   /\ row.passed_checks =
                         IntCell(Cardinality({i \in DOMAIN checks :
                                                checks[i].result = "PASS"}))
                   /\ row.failed = StrCell(Join([i \in 1..Len(fails) |-> fails[i].name]))
                   /\ row.weight =
                         IF cw = {} THEN StrCell("UNKNOWN")
                         ELSE StrCell(checks[CHOOSE i \in cw : \A k \in cw : k <= i].result)
                   /\ result'[th[w].job].rows = <<row>>]_vars

\* The row of a record with three checks: two passed, the weight check failed.
C19_Witness ==
    /\ \E w \in Workers : th[w].pc = "idle"
    /\ \E i \in DOMAIN csv :
          /\ csv[i].status = "completed"
          /\ csv[i].passed_checks = IntCell(2)
          /\ csv[i].failed = StrCell("CONCENTRATED_WEIGHT")
          /\ csv[i].weight = StrCell("FAIL")
          /\ result[csv[i].idea_id].rows = <<csv[i]>>

\* C20: a row is written and the unflushed-row counter changes only in a step
\* of the thread that holds write_lock, and whenever no append is under way
\* the lines written and not yet flushed (the header line counted) are the
\* counter's value and at most flush_interval - 1.
C20_FlushBounded ==
    /\ [](write_lock = 0 =>
            /\ Len(csv) + 1 - flushed = unflushed_row_count
            /\ Len(csv) + 1 - flushed <= flush_interval - 1)
    /\ [][(csv' # csv \/ unflushed_row_count' # unflushed_row_count)
            => /\ write_lock \in Workers
               /\ Steps(write_lock)
               /\ \A v \in Workers : v # write_lock => ~Steps(v)
               /\ \A v \in Workers :
                     v # write_lock => th[v].pc \notin {"write_row", "write_flush"}]_vars

\* The flush_interval-th line was written and flushed, and more rows were
\* written after it.
C20_Witness ==
    /\ write_lock = 0
    /\ flushed = flush_interval
    /\ Len(csv) + 1 > flushed
    /\ \A w \in Workers : th[w].pc = "idle"

\* C21: an update of the tracker keeps the idea_id of every row and leaves
\* every column of every row with another idea_id as it was in the file.
C21_UpdateChangesOneRow ==
    [][\A j \in Jobs :
          (/\ result[j].state = "done"
           /\ result'[j].state = "collected"
           /\ result[j].rows # <<>>)
          => \A i \in DOMAIN tracker :
                /\ tracker'[i].idea_id = tracker[i].idea_id
                /\ tracker[i].idea_id # result[j].rows[1].idea_id
                      => tracker'[i] = tracker[i]]_vars

\* C22: every change of a tracker row's status goes from pending to completed
\* or from pending to failed.
C22_StatusFromPendingOnly ==
    [][\A i \in DOMAIN tracker :
          tracker'[i].status # tracker[i].status
          => /\ tracker[i].status = "pending"
             /\ tracker'[i].status \in {"completed", "failed"}]_vars

\* C23: while the login has not expired, a monitor whose poll returned a
\* response with the alpha goes on to the fetch of that alpha, however long
\* the monitor has run; a monitor whose poll returned a message without
\* progress ends the job with no other poll.
C23_PollOutcomeDecides ==
    [][\A w \in Workers :
          (/\ th[w].pc = "rwr_ret"
           /\ th[w].stage = "poll"
           /\ ~login_expired
           /\ Steps(w))
          => /\ th[w].ret = "alpha"
                   => th'[w].stage = "fetch" /\ th'[w].job = th[w].job
             /\ th[w].ret = "message" => th'[w].pc = "idle"]_vars

\* C24: the sleep a thread starts at the cooldown check of an attempt ends no
\* later than the cooldown window does (last_429_time + cooldown_seconds), and
\* so lasts at most cooldown_seconds.
C24_CooldownSleepEndsWithWindow ==
    [][\A w \in Workers :
          (th[w].pc = "rw_lock" /\ th'[w].pc = "rw_sleep")
          => /\ th'[w].wake <= last_429_time + cooldown_seconds
             /\ th'[w].wake - clock <= cooldown_seconds]_vars

\* C25: when a run has loaded its jobs, the tracker rows it loaded read
\* processing, and a load of the tracker by a second run returns none of them.
C25_LoadMarksProcessing ==
    [][(result = <<>> /\ queue' # <<>>)
         => LET loaded == {queue'[i] : i \in DOMAIN queue'}
                again == LoadParameters(tracker')
            IN  /\ \A i \in DOMAIN tracker :
                      tracker[i].idea_id \in loaded
                         => tracker'[i].status = "processing"
                /\ \A i \in DOMAIN again : again[i] \notin loaded]_vars

\* C26: a process reads and writes the tracker file only while it holds the
\* file lock, what it writes is made from the file as it is then, and once
\* the updates for different idea_ids have ended without
\* a lock timeout, the tracker row of each of them holds its result row's
\* status and values.
C26_NoLostUpdate ==
    /\ [](\A p \in Processes :
            updater[p].pc \in {"read", "write", "release"} => file_lock = p)
    /\ [](\A p \in Processes :
            updater[p].pc = "write" => updater[p].df = tracker)
    /\ []((\A p \in Processes : updater[p].pc \in {"done", "timeout"})
            => \A p \in Processes : \A i \in DOMAIN tracker :
                  (updater[p].pc = "done" /\ tracker[i].idea_id = p)
                  => LET r == updater[p].row[1]
                     IN  /\ tracker[i].status = r.status
                         /\ tracker[i].passed_checks.n = r.passed_checks.n
                         /\ tracker[i].failed.s = r.failed.s
                         /\ tracker[i].sharpe.n = r.sharpe.n
                         /\ tracker[i].fitness.n = r.fitness.n
                         /\ tracker[i].turnover.n = r.turnover.n
                         /\ tracker[i].weight_check.s = r.weight.s
                         /\ tracker[i].subsharpe.n = r.subsharpe.n
                         /\ tracker[i].subsharpe.s = r.subsharpe.s)

\* Every process has updated the tracker, one with a failed and one with a
\* completed result, and the tracker holds them.
C26_Witness ==
    /\ \A p \in Processes : updater[p].pc = "done"
    /\ \A i \in DOMAIN tracker : tracker[i].status \in {"completed", "failed"}
    /\ \E i \in DOMAIN tracker : tracker[i].status = "failed"
    /\ \E i \in DOMAIN tracker : tracker[i].status = "completed"

ThreadLocks == {"rate_limiter.lock", "rate_limit_lock", "login_lock", "write_lock"}

Holder(l) ==
    CASE l = "rate_limiter.lock" -> limiter_lock
      [] l = "rate_limit_lock" -> rate_limit_lock
      [] l = "login_lock" -> login_lock
      [] l = "write_lock" -> write_lock

WaitsFor(w) ==
    CASE th[w].pc \in {"rw_lock", "t429_lock"} -> {"rate_limit_lock"}
      [] th[w].pc = "wait_enter" -> {"rate_limiter.lock"}
      [] th[w].pc = "auth_lock" -> {"login_lock"}
      [] th[w].pc = "write_enter" -> {"write_lock"}
      [] OTHER -> {}

C29_ReloginExclusive ==
    /\ [](/\ Cardinality({w \in Workers : th[w].pc = "login"}) <= 1
          /\ \A w \in Workers : th[w].pc = "login" => login_lock = w)
    /\ [][login_expired' # login_expired
            => \E w \in Workers :
                  /\ Steps(w)
                  /\ login_lock \in {0, w}
                  /\ login_lock = w \/ login_lock' = w
                  /\ \A v \in Workers : v # w => th[v].pc # "login"]_vars

\* A thread is in login() while another thread, whose call also failed on
\* authentication, waits for login_lock.
C29_Witness ==
    \E v, w \in Workers :
       /\ th[w].pc = "login"
       /\ login_lock = w
       /\ th[v].pc = "auth_lock"

\* C30: whatever responses and exceptions it meets, one request_with_retry
\* call makes at most max_attempts transport calls of its own (the calls of
\* login() are not counted).
C30_AtMostMaxAttemptsCalls ==
    \A w \in Workers : th[w].ncalls <= max_attempts

\* C31: while another thread is in login() of a re-login (login_expired is
\* set until login() returns), a job that is started does run, and a thread
\* whose call returned a valid response in time goes on with it: a submit's
\* link to the monitor, a poll's progress to the next poll, a poll's alpha to
\* the fetch, a fetch's record to the completed row.
C31_SiblingUnharmedByRelogin ==
    [][(/\ login_expired
        /\ login_lock \in Workers
        /\ th[login_lock].pc = "login")
       => /\ queue' # queue => result'[Head(queue)].state = "running"
          /\ \A w \in Workers :
                (w # login_lock /\ th[w].pc = "rwr_ret" /\ Steps(w))
                => /\ (th[w].stage = "submit" /\ th[w].ret = "location")
                         => th'[w].stage = "poll"
                   /\ (/\ th[w].stage = "poll"
                       /\ clock - th[w].start_time <= timeout
                       /\ th[w].ret = "progress")
                         => th'[w].pc = "poll_sleep"
                   /\ (/\ th[w].stage = "poll"
                       /\ clock - th[w].start_time <= timeout
                       /\ th[w].ret = "alpha")
                         => th'[w].stage = "fetch"
                   /\ (th[w].stage = "fetch" /\ th[w].ret = "data")
                         => /\ Len(csv') = Len(csv) + 1
                            /\ csv'[Len(csv')].status = "completed"]_vars

\* Every job of the run has been collected by the coordinating thread.
AllCollected == \A j \in DOMAIN result : result[j].state = "collected"

\* C32: under fair scheduling, with every outbound call answered, every
\* dispatched job is eventually recorded or abandoned and collected, and
\* run() returns, whatever the remote service answers.
C32_RunTerminates == <>AllCollected

\* The coordinating thread takes the future of job j in this step.
Collects(j) == result[j].state = "done" /\ result'[j].state = "collected"

\* C33: the tracker is updated for a job only after the job's result row
\* was appended to the result CSV; every job that returned a row gets one
\* update attempt and no more (its future is taken, once, and is not
\* dropped); the attempt is a step of the coordinating thread, never of a
\* worker, and one job's at a time.
C33_OneLedgerUpdateAfterRow ==
    /\ [](\A j \in Jobs :
            tracker[j].status # "pending"
            => /\ result[j].state = "collected"
               /\ result[j].rows # <<>>
               /\ \E i \in RowsOf(j) : csv[i] = result[j].rows[1]
               /\ tracker[j].status = result[j].rows[1].status)
    /\ [][/\ (\E w \in Workers : Steps(w)) => tracker' = tracker
          /\ tracker' # tracker => \E j \in Jobs : Collects(j)
          /\ \A j \in Jobs :
                /\ result[j].state = "collected" => result'[j] = result[j]
                /\ (result[j].state = "done" /\ result'[j] # result[j]) => Collects(j)
                /\ Collects(j)
                   => /\ \A k \in Jobs : Collects(k) => k = j
                      /\ result[j].rows = <<>> => tracker' = tracker /\ faults' = faults
                      /\ result[j].rows # <<>>
                         => /\ \E i \in RowsOf(j) : csv[i] = result[j].rows[1]
                            /\ \/ tracker' = UpdateTracker(tracker, result[j].rows[1])
                               \/ tracker' = tracker /\ faults' = faults - 1]_vars

\* The run has returned; one job's row was written as completed and the
\* tracker has it, the other job's update found the file locked and its
\* tracker row is still pending.
C33_Witness ==
    /\ RunReturned
    /\ \E j \in Jobs :
          /\ RowsOf(j) # {}
          /\ tracker[j].status = "completed"
          /\ \E k \in Jobs :
                /\ k # j
                /\ result[k].rows # <<>>
                /\ tracker[k].status = "pending"


====
